---------------------------- MODULE Spec2Model ----------------------------
(***************************************************************************)
(* A model of dynamodb_utils.DynamoDBUtils (src/dynamodb_utils/__init__.py) *)
(*                                                                         *)
(*   load_object      json.loads(json.dumps(x), object_hook=__object_hook) *)
(*   __object_hook    the per-object step of the decoder                   *)
(*   __parse_dynamodb_object   the ordered tag dispatch                    *)
(*   retrieve_many / __replace_decimals   the Decimal normaliser           *)
(*                                                                         *)
(* Python values are records whose field t names the Python type and whose *)
(* other field carries the payload:                                        *)
(*   None      [t |-> "Null"]                                              *)
(*   bool      [t |-> "Bool",  b |-> TRUE]                                 *)
(*   int       [t |-> "Int",   i |-> 3]                                    *)
(*   float     [t |-> "Float", num |-> 35, exp |-> 1]       (35 / 10^1)    *)
(*   Decimal   [t |-> "Decimal", num |-> 40, exp |-> 1]     (Decimal 4.0)  *)
(*   str       [t |-> "Str",   s |-> << "a", "b" >>]  (one-character strs) *)
(*   datetime  [t |-> "Timestamp", dt |-> <<Y, m, d, H, M, S, us>>]        *)
(*   list      [t |-> "List",  l |-> << v1, v2 >>]                         *)
(*   set       [t |-> "Set",   e |-> {v1, v2}]                             *)
(*   dict      [t |-> "Dict",  d |-> [k \in keys |-> value]] (keys: str)   *)
(* A call that ends in an exception yields Raised.                         *)
(***************************************************************************)
EXTENDS Integers, Sequences, FiniteSets, TLC

\* pc: where the call in progress stands; op: the operation called; arg: its
\* argument (for retrieve_many, the items the scan gave); use_decimal:
\* retrieve_many's flag; doc: the JSON document load_object dumped; ret: the
\* value returned (Raised when the call ended in an exception).
VARIABLES pc, op, arg, use_decimal, doc, ret

vars == <<pc, op, arg, use_decimal, doc, ret>>

(***************************************************************************)
(* Bounds of the model.                                                    *)
(***************************************************************************)
\* longest N string drawn from NumChars
MaxLen == 4
\* longest list handed to SS / NS / BS / L and longest scanned batch
MaxList == 3
\* levels of M / L nesting around an attribute-value
MaxDepth == 2
\* most items a scan returns
MaxBatch == 2

(***************************************************************************)
(* Value constructors.                                                     *)
(***************************************************************************)
Null == [t |-> "Null"]
BoolV(x) == [t |-> "Bool", b |-> x]
IntV(n) == [t |-> "Int", i |-> n]
StrV(chars) == [t |-> "Str", s |-> chars]
ListV(seq) == [t |-> "List", l |-> seq]
SetV(elems) == [t |-> "Set", e |-> elems]
DictV(f) == [t |-> "Dict", d |-> f]
Datetime(fields) == [t |-> "Timestamp", dt |-> fields]
DecimalV(n, e) == [t |-> "Decimal", num |-> n, exp |-> e]
Raised == [t |-> "Raised"]

RECURSIVE Pow10(_)
Pow10(e) == IF e = 0 THEN 1 ELSE 10 * Pow10(e - 1)

Abs(n) == IF n < 0 THEN -n ELSE n
Sign(n) == IF n < 0 THEN -1 ELSE 1

\* A float holding num / 10^exp, in lowest terms of the power of ten, so that
\* 2.0 and 2.00 are one value (-0.0 == 0.0 in Python: both are num 0).
RECURSIVE FloatV(_, _)
FloatV(n, e) ==
    IF e > 0 /\ n % 10 = 0 THEN FloatV(n \div 10, e - 1)
    ELSE [t |-> "Float", num |-> n, exp |-> e]

(***************************************************************************)
(* Strings: digits, int(str), float(str), str(obj).                        *)
(***************************************************************************)
DigitChars == {"0", "1", "2", "3", "4", "5", "6", "7", "8", "9"}

DigitVal(c) ==
    CASE c = "0" -> 0 [] c = "1" -> 1 [] c = "2" -> 2 [] c = "3" -> 3
      [] c = "4" -> 4 [] c = "5" -> 5 [] c = "6" -> 6 [] c = "7" -> 7
      [] c = "8" -> 8 [] c = "9" -> 9

DigitChar(n) ==
    CASE n = 0 -> "0" [] n = 1 -> "1" [] n = 2 -> "2" [] n = 3 -> "3"
      [] n = 4 -> "4" [] n = 5 -> "5" [] n = 6 -> "6" [] n = 7 -> "7"
      [] n = 8 -> "8" [] n = 9 -> "9"

AllDigits(s) == \A i \in 1..Len(s) : s[i] \in DigitChars

RECURSIVE DigitsValue(_)
DigitsValue(s) ==
    IF Len(s) = 0 THEN 0
    ELSE 10 * DigitsValue(SubSeq(s, 1, Len(s) - 1)) + DigitVal(s[Len(s)])

RECURSIVE NatToStr(_)
NatToStr(n) ==
    IF n < 10 THEN <<DigitChar(n)>>
    ELSE NatToStr(n \div 10) \o <<DigitChar(n % 10)>>

RECURSIVE ZeroPad(_, _)
ZeroPad(s, width) == IF Len(s) >= width THEN s ELSE ZeroPad(<<"0">> \o s, width)

IntToStr(n) == IF n < 0 THEN <<"-">> \o NatToStr(-n) ELSE NatToStr(n)

\* re.match("^-?\\d+?\\.\\d+?$", value): an optional minus, digits, a point,
\* digits, to the end of the string.
ReMatchFloat(s) ==
    LET body == IF Len(s) > 0 /\ s[1] = "-" THEN Tail(s) ELSE s
    IN  \E p \in 2..(Len(body) - 1) :
            /\ body[p] = "."
            /\ AllDigits(SubSeq(body, 1, p - 1))
            /\ AllDigits(SubSeq(body, p + 1, Len(body)))

\* float(value), for a value the pattern above has matched.
PyFloat(s) ==
    LET neg == s[1] = "-"
        body == IF neg THEN Tail(s) ELSE s
        p == CHOOSE q \in 1..Len(body) : body[q] = "."
        digits == SubSeq(body, 1, p - 1) \o SubSeq(body, p + 1, Len(body))
        n == DigitsValue(digits)
    IN  FloatV(IF neg THEN -n ELSE n, Len(body) - p)

\* int(value) of a str: an optional sign and decimal digits, ValueError
\* otherwise (surrounding whitespace and underscores, which int() also takes,
\* are characters outside the strings of this model).
PyInt(s) ==
    LET signed == Len(s) > 0 /\ s[1] \in {"-", "+"}
        body == IF signed THEN Tail(s) ELSE s
    IN  IF Len(body) > 0 /\ AllDigits(body)
        THEN IntV(IF signed /\ s[1] = "-" THEN -DigitsValue(body) ELSE DigitsValue(body))
        ELSE Raised

FloatRepr(v) ==
    LET a == Abs(v.num)
        whole == NatToStr(a \div Pow10(v.exp))
        frac == IF v.exp = 0 THEN <<"0">>
                ELSE ZeroPad(NatToStr(a % Pow10(v.exp)), v.exp)
    IN  (IF v.num < 0 THEN <<"-">> ELSE <<>>) \o whole \o <<".">> \o frac

TimestampStr(dt) ==
    ZeroPad(NatToStr(dt[1]), 4) \o <<"-">> \o ZeroPad(NatToStr(dt[2]), 2) \o <<"-">>
    \o ZeroPad(NatToStr(dt[3]), 2) \o <<" ">> \o ZeroPad(NatToStr(dt[4]), 2) \o <<":">>
    \o ZeroPad(NatToStr(dt[5]), 2) \o <<":">> \o ZeroPad(NatToStr(dt[6]), 2)
    \o (IF dt[7] = 0 THEN <<>> ELSE <<".">> \o ZeroPad(NatToStr(dt[7]), 6))

\* The characters of the keys objects of this model carry.
KeyStr(k) ==
    CASE k = "BOOL" -> <<"B", "O", "O", "L">> [] k = "S" -> <<"S">>
      [] k = "SS" -> <<"S", "S">> [] k = "N" -> <<"N">> [] k = "B" -> <<"B">>
      [] k = "NS" -> <<"N", "S">> [] k = "BS" -> <<"B", "S">> [] k = "M" -> <<"M">>
      [] k = "L" -> <<"L">> [] k = "NULL" -> <<"N", "U", "L", "L">>
      [] k = "a" -> <<"a">> [] k = "b" -> <<"b">> [] k = "x" -> <<"x">>

RECURSIVE SetToSeq(_)
SetToSeq(S) ==
    IF S = {} THEN <<>>
    ELSE LET x == CHOOSE y \in S : TRUE IN <<x>> \o SetToSeq(S \ {x})

\* repr(datetime): the fields without padding; a zero microsecond is left
\* out, and a zero second with it.
RECURSIVE JoinInts(_)
JoinInts(seq) ==
    IF Len(seq) = 1 THEN NatToStr(seq[1])
    ELSE NatToStr(seq[1]) \o <<",", " ">> \o JoinInts(Tail(seq))

DatetimeRepr(dt) ==
    LET shown == IF dt[7] # 0 THEN dt
                 ELSE IF dt[6] # 0 THEN SubSeq(dt, 1, 6) ELSE SubSeq(dt, 1, 5)
    IN  <<"d", "a", "t", "e", "t", "i", "m", "e", ".", "d", "a", "t", "e", "t", "i", "m", "e", "(">>
        \o JoinInts(shown) \o <<")">>

\* repr(obj).  A dict or a set of two or more entries prints in an iteration
\* order the values of this model do not carry, and no input of the model makes
\* repr() see one (nor a Decimal).
RECURSIVE PyRepr(_)
RECURSIVE ReprJoin(_)
ReprJoin(seq) ==
    IF Len(seq) = 0 THEN <<>>
    ELSE IF Len(seq) = 1 THEN PyRepr(seq[1])
    ELSE PyRepr(seq[1]) \o <<",", " ">> \o ReprJoin(Tail(seq))

PyRepr(v) ==
    CASE v.t = "Null" -> <<"N", "o", "n", "e">>
      [] v.t = "Bool" -> IF v.b THEN <<"T", "r", "u", "e">> ELSE <<"F", "a", "l", "s", "e">>
      [] v.t = "Int" -> IntToStr(v.i)
      [] v.t = "Float" -> FloatRepr(v)
      [] v.t = "Str" -> <<"'">> \o v.s \o <<"'">>
      [] v.t = "Timestamp" -> DatetimeRepr(v.dt)
      [] v.t = "List" -> <<"[">> \o ReprJoin(v.l) \o <<"]">>
      [] v.t = "Dict" /\ Cardinality(DOMAIN v.d) = 0 -> <<"{", "}">>
      [] v.t = "Dict" /\ Cardinality(DOMAIN v.d) = 1 ->
            LET k == CHOOSE x \in DOMAIN v.d : TRUE
            IN  <<"{", "'">> \o KeyStr(k) \o <<"'", ":", " ">> \o PyRepr(v.d[k]) \o <<"}">>
      [] v.t = "Set" /\ Cardinality(v.e) = 0 -> <<"s", "e", "t", "(", ")">>
      [] v.t = "Set" /\ Cardinality(v.e) = 1 ->
            <<"{">> \o PyRepr(CHOOSE x \in v.e : TRUE) \o <<"}">>

\* str(obj): the text itself for a str, the ISO form with a space for a
\* datetime, repr(obj) for the rest.
PyStr(v) ==
    CASE v.t = "Str" -> v.s
      [] v.t = "Timestamp" -> TimestampStr(v.dt)
      [] OTHER -> PyRepr(v)

(***************************************************************************)
(* datetime.strptime(value, '%Y-%m-%dT%H:%M:%S.%f').                       *)
(* The format compiles to a pattern of digit fields divided by literals,   *)
(* matched against the whole string: %Y is four digits, %m %d %H %M %S one *)
(* or two digits within their ranges, %f one to six digits read as a       *)
(* fraction of a second; the literal T matches either case.  The fields    *)
(* then build a datetime, which rejects year 0, a day beyond the month's   *)
(* end and second 60 or 61.  Every failure is ValueError.                  *)
(***************************************************************************)
TimestampFormat == <<"Y", "-", "m", "-", "d", "T", "H", ":", "M", ":", "S", ".", "f">>

RECURSIVE DigitRun(_, _)
DigitRun(s, p) ==
    IF p <= Len(s) /\ s[p] \in DigitChars THEN 1 + DigitRun(s, p + 1) ELSE 0

FieldMatches(directive, width, value) ==
    CASE directive = "Y" -> width = 4
      [] directive = "m" -> width \in 1..2 /\ value \in 1..12
      [] directive = "d" -> width \in 1..2 /\ value \in 1..31
      [] directive = "H" -> width \in 1..2 /\ value \in 0..23
      [] directive = "M" -> width \in 1..2 /\ value \in 0..59
      [] directive = "S" -> width \in 1..2 /\ value \in 0..61
      [] directive = "f" -> width \in 1..6

IsLeap(y) == y % 4 = 0 /\ (y % 100 # 0 \/ y % 400 = 0)

DaysInMonth(y, m) ==
    IF m = 2 THEN (IF IsLeap(y) THEN 29 ELSE 28)
    ELSE IF m \in {4, 6, 9, 11} THEN 30 ELSE 31

\* The fields matched from position p on by the format from item k on, after
\* the fields in acc; << >> when the string does not match.
RECURSIVE MatchFormat(_, _, _, _)
MatchFormat(s, p, k, acc) ==
    IF k > Len(TimestampFormat) THEN (IF p = Len(s) + 1 THEN acc ELSE <<>>)
    ELSE LET item == TimestampFormat[k]
         IN  IF item \in {"-", ":", "."}
             THEN IF p <= Len(s) /\ s[p] = item
                  THEN MatchFormat(s, p + 1, k + 1, acc) ELSE <<>>
             ELSE IF item = "T"
             THEN IF p <= Len(s) /\ s[p] \in {"T", "t"}
                  THEN MatchFormat(s, p + 1, k + 1, acc) ELSE <<>>
             ELSE LET w == DigitRun(s, p)
                      n == DigitsValue(SubSeq(s, p, p + w - 1))
                  IN  IF w > 0 /\ FieldMatches(item, w, n)
                      THEN MatchFormat(s, p + w, k + 1,
                              Append(acc, IF item = "f" THEN n * Pow10(6 - w) ELSE n))
                      ELSE <<>>

\* The datetime parsed from s, or Raised (ValueError).
Strptime(s) ==
    LET f == MatchFormat(s, 1, 1, <<>>)
    IN  IF f = <<>> THEN Raised
        ELSE IF f[1] < 1 \/ f[3] > DaysInMonth(f[1], f[2]) \/ f[6] > 59 THEN Raised
        ELSE Datetime(f)

(***************************************************************************)
(* Decimal arithmetic: value % 1, int(value), float(value).                *)
(***************************************************************************)
\* value % 1 as a numerator over 10^exp; the remainder takes the sign of value.
DecimalMod1(v) == Sign(v.num) * (Abs(v.num) % Pow10(v.exp))

\* int(value) truncates toward zero.
DecimalToInt(v) == IntV(Sign(v.num) * (Abs(v.num) \div Pow10(v.exp)))

DecimalToFloat(v) == FloatV(v.num, v.exp)

(***************************************************************************)
(* list(x) and set(x).                                                     *)
(***************************************************************************)
\* The elements iterating x yields; a set comes apart as a Python set compares.
\* A set iterates in an order of its own which list() would expose: nothing
\* here hands a set to list(), and set() of a set does not depend on it.
Iterable(v) == v.t \in {"List", "Str", "Dict", "Set"}

Elements(v) ==
    CASE v.t = "List" -> v.l
      [] v.t = "Str" -> [i \in 1..Len(v.s) |-> StrV(<<v.s[i]>>)]
      [] v.t = "Dict" -> LET ks == SetToSeq(DOMAIN v.d)
                         IN  [i \in 1..Len(ks) |-> StrV(KeyStr(ks[i]))]
      [] v.t = "Set" -> SetToSeq(v.e)

Hashable(v) == v.t \notin {"List", "Dict", "Set"}

IsNumber(v) == v.t \in {"Bool", "Int", "Float", "Decimal"}

\* The number a bool, int, float or Decimal holds, as a float value.
NumberOf(v) ==
    CASE v.t = "Bool" -> FloatV(IF v.b THEN 1 ELSE 0, 0)
      [] v.t = "Int" -> FloatV(v.i, 0)
      [] v.t = "Float" -> v
      [] v.t = "Decimal" -> FloatV(v.num, v.exp)

\* a == b for hashable values: numbers compare by value across their types.
PyEq(a, b) == IF IsNumber(a) /\ IsNumber(b) THEN NumberOf(a) = NumberOf(b) ELSE a = b

\* set(iterable): the first of equal elements is the one kept.
RECURSIVE AddAll(_, _)
AddAll(acc, seq) ==
    IF Len(seq) = 0 THEN acc
    ELSE AddAll(IF \E w \in acc : PyEq(w, seq[1]) THEN acc ELSE acc \cup {seq[1]},
                Tail(seq))

\* list(x): TypeError unless x is iterable.
PyList(v) == IF Iterable(v) THEN ListV(Elements(v)) ELSE Raised

\* set(x): TypeError unless x is iterable and its elements hashable.
PySet(v) ==
    IF ~Iterable(v) THEN Raised
    ELSE LET es == Elements(v)
         IN  IF \E i \in 1..Len(es) : ~Hashable(es[i]) THEN Raised
             ELSE SetV(AddAll({}, es))

(***************************************************************************)
(* DynamoDBUtils.__parse_dynamodb_object: the (is_dynamodb_object, value)  *)
(* pair, or Raised when a branch lets an exception out.                    *)
(***************************************************************************)
Parsed(is, v) == [t |-> "Tuple", is_dynamodb_object |-> is, value |-> v]

\* 'S': strptime takes a str only (TypeError otherwise, not caught); its
\* ValueError is caught and leaves str(value).
ParseS(v) ==
    IF v.t # "Str" THEN Raised
    ELSE LET parsed == Strptime(v.s)
         IN  Parsed(TRUE, IF parsed = Raised THEN StrV(PyStr(v)) ELSE parsed)

\* An 'N' branch whose pattern makes the fraction optional: every number a float.
ParseNOptionalFraction(v) ==
    IF v.t # "Str" THEN Raised
    ELSE IF ReMatchFloat(v.s) THEN Parsed(TRUE, PyFloat(v.s))
    ELSE LET n == PyInt(v.s)
         IN  IF n = Raised THEN Raised
             ELSE IF v.s[1] = "+" THEN Parsed(TRUE, n)
             ELSE Parsed(TRUE, FloatV(n.i, 0))

\* 'N': re.match takes a str only (TypeError otherwise); float() on a match,
\* int() otherwise, whose ValueError is not caught.
ParseN(v) ==
    IF v.t # "Str" THEN Raised
    ELSE IF ReMatchFloat(v.s) THEN Parsed(TRUE, PyFloat(v.s))
    ELSE LET n == PyInt(v.s) IN IF n = Raised THEN Raised ELSE Parsed(TRUE, n)

Converted(v) == IF v = Raised THEN Raised ELSE Parsed(TRUE, v)

\* A dispatch that looks for N before S.
ParseDynamodbObjectNBeforeS(dict_) ==
    LET d == dict_.d
        has(k) == k \in DOMAIN d
    IN  IF has("BOOL") THEN Parsed(TRUE, d["BOOL"])
        ELSE IF has("N") THEN ParseN(d["N"])
        ELSE IF has("S") THEN ParseS(d["S"])
        ELSE IF has("SS") THEN Converted(PyList(d["SS"]))
        ELSE IF has("B") THEN Parsed(TRUE, StrV(PyStr(d["B"])))
        ELSE IF has("NS") THEN Converted(PySet(d["NS"]))
        ELSE IF has("BS") THEN Converted(PySet(d["BS"]))
        ELSE IF has("M") THEN Parsed(TRUE, d["M"])
        ELSE IF has("L") THEN Parsed(TRUE, d["L"])
        ELSE IF has("NULL") /\ d["NULL"] = BoolV(TRUE) THEN Parsed(TRUE, Null)
        ELSE Parsed(FALSE, Null)

\* A dispatch that takes NULL by its presence, whatever it holds.
ParseDynamodbObjectNullAnyValue(dict_) ==
    LET d == dict_.d
        has(k) == k \in DOMAIN d
    IN  IF has("BOOL") THEN Parsed(TRUE, d["BOOL"])
        ELSE IF has("S") THEN ParseS(d["S"])
        ELSE IF has("SS") THEN Converted(PyList(d["SS"]))
        ELSE IF has("N") THEN ParseN(d["N"])
        ELSE IF has("B") THEN Parsed(TRUE, StrV(PyStr(d["B"])))
        ELSE IF has("NS") THEN Converted(PySet(d["NS"]))
        ELSE IF has("BS") THEN Converted(PySet(d["BS"]))
        ELSE IF has("M") THEN Parsed(TRUE, d["M"])
        ELSE IF has("L") THEN Parsed(TRUE, d["L"])
        ELSE IF has("NULL") THEN Parsed(TRUE, Null)
        ELSE Parsed(FALSE, Null)

ParseDynamodbObject(dict_) ==
    LET d == dict_.d
        has(k) == k \in DOMAIN d
    IN  IF has("BOOL") THEN Parsed(TRUE, d["BOOL"])
        ELSE IF has("S") THEN ParseS(d["S"])
        ELSE IF has("SS") THEN Converted(PyList(d["SS"]))
        ELSE IF has("N") THEN ParseN(d["N"])
        ELSE IF has("B") THEN Parsed(TRUE, StrV(PyStr(d["B"])))
        ELSE IF has("NS") THEN Converted(PySet(d["NS"]))
        ELSE IF has("BS") THEN Converted(PySet(d["BS"]))
        ELSE IF has("M") THEN Parsed(TRUE, d["M"])
        ELSE IF has("L") THEN Parsed(TRUE, d["L"])
        ELSE IF has("NULL") /\ d["NULL"] = BoolV(TRUE) THEN Parsed(TRUE, Null)
        ELSE Parsed(FALSE, Null)

(***************************************************************************)
(* DynamoDBUtils.__object_hook: the value of a tagged object, else the     *)
(* object with its str fields parsed as timestamps where they parse and    *)
(* its Decimal fields made float or int.                                   *)
(***************************************************************************)
HookField(value) ==
    IF value.t = "Str"
    THEN LET parsed == Strptime(value.s) IN IF parsed = Raised THEN value ELSE parsed
    ELSE IF value.t = "Decimal"
    THEN IF DecimalMod1(value) > 0 THEN DecimalToFloat(value) ELSE DecimalToInt(value)
    ELSE value

ObjectHook(dict_) ==
    LET r == ParseDynamodbObject(dict_)
    IN  IF r = Raised THEN Raised
        ELSE IF r.is_dynamodb_object THEN r.value
        ELSE DictV([key \in DOMAIN dict_.d |-> HookField(dict_.d[key])])

(***************************************************************************)
(* json.dumps and json.loads(..., object_hook=__object_hook).              *)
(***************************************************************************)
\* json.dumps: the document of a tree of None, bool, int, float, str, list and
\* dict with str keys; TypeError for any other object in it.  The document is
\* kept as the tree json.loads parses it back to.
RECURSIVE JsonDumps(_)
JsonDumps(v) ==
    CASE v.t \in {"Null", "Bool", "Int", "Float", "Str"} -> v
      [] v.t = "List" ->
            LET es == [i \in 1..Len(v.l) |-> JsonDumps(v.l[i])]
            IN  IF \E i \in 1..Len(es) : es[i] = Raised THEN Raised ELSE ListV(es)
      [] v.t = "Dict" ->
            LET fs == [k \in DOMAIN v.d |-> JsonDumps(v.d[k])]
            IN  IF \E k \in DOMAIN fs : fs[k] = Raised THEN Raised ELSE DictV(fs)
      [] OTHER -> Raised

\* json.loads: every object of the document, innermost first, is replaced by
\* what the hook returns for it; an exception of the hook ends the call.
RECURSIVE JsonLoads(_)
\* A traversal that leaves the objects inside arrays as they are.
JsonLoadsSkipLists(v) ==
    CASE v.t = "Dict" ->
            LET fs == [k \in DOMAIN v.d |-> JsonLoads(v.d[k])]
            IN  IF \E k \in DOMAIN fs : fs[k] = Raised THEN Raised
                ELSE ObjectHook(DictV(fs))
      [] OTHER -> v

JsonLoads(v) ==
    CASE v.t = "List" ->
            LET es == [i \in 1..Len(v.l) |-> JsonLoads(v.l[i])]
            IN  IF \E i \in 1..Len(es) : es[i] = Raised THEN Raised ELSE ListV(es)
      [] v.t = "Dict" ->
            LET fs == [k \in DOMAIN v.d |-> JsonLoads(v.d[k])]
            IN  IF \E k \in DOMAIN fs : fs[k] = Raised THEN Raised
                ELSE ObjectHook(DictV(fs))
      [] OTHER -> v

(***************************************************************************)
(* DynamoDBUtils.__replace_decimals and retrieve_many.                     *)
(***************************************************************************)
RECURSIVE ReplaceDecimals(_)
ReplaceDecimals(object_) ==
    CASE object_.t = "List" ->
            ListV([i \in 1..Len(object_.l) |-> ReplaceDecimals(object_.l[i])])
      [] object_.t = "Dict" ->
            DictV([k \in DOMAIN object_.d |-> ReplaceDecimals(object_.d[k])])
      [] object_.t = "Decimal" ->
            IF DecimalMod1(object_) = 0 THEN DecimalToInt(object_)
            ELSE DecimalToFloat(object_)
      [] OTHER -> object_

\* The batch retrieve_many returns for the items the scan gave.
RetrieveMany(items, keep_decimal) ==
    IF ~keep_decimal
    THEN ListV([i \in 1..Len(items.l) |-> ReplaceDecimals(items.l[i])])
    ELSE items

(***************************************************************************)
(* The inputs of the model.                                                *)
(***************************************************************************)
Tags == <<"BOOL", "S", "SS", "N", "B", "NS", "BS", "M", "L", "NULL">>
TagSet == {Tags[i] : i \in 1..Len(Tags)}

Obj1(k, v) == DictV([x \in {k} |-> v])
Obj2(k1, v1, k2, v2) == DictV([x \in {k1, k2} |-> IF x = k1 THEN v1 ELSE v2])

SeqsUpTo(S, n) == UNION {[1..m -> S] : m \in 0..n}

\* "2020-01-02T03:04:05.123456"
TsText == <<"2", "0", "2", "0", "-", "0", "1", "-", "0", "2", "T", "0", "3", ":", "0", "4", ":", "0", "5", ".", "1", "2", "3", "4", "5", "6">>
\* "2020-1-2t3:4:5.5": single digits and a lower-case t also parse
TsShortText == <<"2", "0", "2", "0", "-", "1", "-", "2", "t", "3", ":", "4", ":", "5", ".", "5">>
\* "2021-02-29T03:04:05.123456": matches the pattern, but is no date
TsNoDateText == <<"2", "0", "2", "1", "-", "0", "2", "-", "2", "9", "T", "0", "3", ":", "0", "4", ":", "0", "5", ".", "1", "2", "3", "4", "5", "6">>

NumChars == {"-", ".", "0", "2", "5", "a"}
NStrings == UNION {[1..n -> NumChars] : n \in 1..MaxLen}

Texts == {StrV(<<"x">>), StrV(<<"2", ".", "5">>), StrV(TsText), StrV(TsShortText),
          StrV(TsNoDateText)}

Letters == {StrV(<<"a">>), StrV(<<"b">>)}

JsonScalars == {Null, BoolV(TRUE), BoolV(FALSE), IntV(3), FloatV(-25, 1)} \cup Texts

\* What a tag may hold in a malformed attribute-value: any JSON value.
TagValues ==
    JsonScalars
    \cup {ListV(<<>>), ListV(<<IntV(3), StrV(<<"x">>)>>), ListV(<<ListV(<<IntV(3)>>)>>),
          DictV(<<>>), Obj1("a", IntV(3)), Obj1("N", StrV(<<"a">>)),
          Obj1("NS", ListV(<<StrV(<<"2">>)>>)), Obj1("S", StrV(TsText))}

\* Well-formed attribute-values with one tag key, nested through M and L.
FieldNames == {"a", "S", "N", "M", "NULL"}

FlatAttributeValues ==
    {Obj1("BOOL", BoolV(b)) : b \in BOOLEAN}
    \cup {Obj1("S", v) : v \in {StrV(<<"x">>), StrV(TsText)}}
    \cup {Obj1("N", v) : v \in {StrV(<<"3">>), StrV(<<"-", "2", ".", "5">>)}}
    \cup {Obj1("B", v) : v \in {StrV(<<"x">>), StrV(TsText)}}
    \cup {Obj1("SS", ListV(<<StrV(<<"a">>), StrV(<<"a">>)>>)),
          Obj1("NS", ListV(<<StrV(<<"2">>), StrV(<<"5">>)>>)),
          Obj1("BS", ListV(<<StrV(<<"x">>)>>)),
          Obj1("NULL", BoolV(TRUE)), Obj1("M", DictV(<<>>)), Obj1("L", ListV(<<>>))}

RECURSIVE AttributeValues(_)
AttributeValues(depth) ==
    IF depth = 0 THEN FlatAttributeValues
    ELSE LET inner == AttributeValues(depth - 1)
         IN  inner
             \cup {Obj1("M", Obj1(f, v)) : f \in FieldNames, v \in inner}
             \cup {Obj1("L", ListV(<<v>>)) : v \in inner}

WideAttributeValues ==
    {Obj1("M", Obj2("a", v, "b", w)) : v, w \in FlatAttributeValues}
    \cup {Obj1("L", ListV(<<v, w>>)) : v, w \in FlatAttributeValues}

Decimals == {DecimalV(n, e) : n \in {-25, -20, -5, 0, 5, 20, 25}, e \in 0..1}

\* The objects handed to load_object.
Docs ==
    {Obj1("N", StrV(s)) : s \in NStrings}
    \cup {Obj1(Tags[i], v) : i \in 1..Len(Tags), v \in TagValues}
    \cup {Obj1(k, ListV(xs)) : k \in {"SS", "NS", "BS"}, xs \in SeqsUpTo(Letters, MaxList)}
    \cup AttributeValues(MaxDepth) \cup WideAttributeValues
    \cup {Obj1("a", v) : v \in FlatAttributeValues \cup JsonScalars}
    \cup {Obj1("NULL", v) : v \in TagValues}
    \cup {Obj2("NULL", v, "x", w) : v \in {BoolV(TRUE), BoolV(FALSE), IntV(3), Null},
                                    w \in JsonScalars}
    \cup {Obj1("x", d) : d \in Decimals}

\* What the members of an object hold when the hook is called on it: decoded
\* values.
HookValues == {Null, BoolV(TRUE), BoolV(FALSE), IntV(3), StrV(<<"x">>), StrV(<<"3">>),
               StrV(TsText), ListV(<<StrV(<<"a">>)>>), Obj1("a", IntV(3))}

\* The objects the hook is called on.
HookDicts ==
    {Obj1(Tags[i], v) : i \in 1..Len(Tags), v \in HookValues}
    \cup {Obj2(Tags[i], v, Tags[j], w) : i, j \in 1..Len(Tags), v, w \in HookValues}
    \cup {DictV([k \in K |-> v]) : K \in SUBSET TagSet \ {{}},
                                   v \in {StrV(<<"x">>), BoolV(TRUE)}}
    \cup {Obj2("a", v, "x", d) : v \in HookValues, d \in Decimals}

\* The items a scan returns: numbers come as Decimal, number sets as sets of
\* Decimal.
ItemValues ==
    Decimals
    \cup {StrV(<<"x">>), ListV(<<DecimalV(20, 1), DecimalV(25, 1)>>),
          SetV({DecimalV(20, 1), DecimalV(25, 1)}), Obj1("a", DecimalV(-25, 1)),
          Obj1("a", ListV(<<DecimalV(-20, 1)>>))}

Items == {Obj1("x", v) : v \in ItemValues}

(***************************************************************************)
(* The state machine: one call at a time, each in the steps of its code.   *)
(***************************************************************************)
Init ==
    /\ pc = "idle"
    /\ op = "none"
    /\ arg = Null
    /\ use_decimal = FALSE
    /\ doc = Null
    /\ ret = Null

\* load_object(dynamodb_object) is called.
LoadObject ==
    /\ pc = "idle"
    /\ \E dynamodb_object \in Docs : arg' = dynamodb_object
    /\ pc' = "dumps"
    /\ op' = "load_object"
    /\ UNCHANGED <<use_decimal, doc, ret>>

\* json.dumps(dynamodb_object)
Dumps ==
    /\ pc = "dumps"
    /\ doc' = JsonDumps(arg)
    /\ IF doc' = Raised
       THEN pc' = "raised" /\ ret' = Raised
       ELSE pc' = "loads" /\ UNCHANGED ret
    /\ UNCHANGED <<op, arg, use_decimal>>

\* json.loads(..., object_hook=self.__object_hook)
Loads ==
    /\ pc = "loads"
    /\ ret' = JsonLoads(doc)
    /\ pc' = (IF ret' = Raised THEN "raised" ELSE "returned")
    /\ UNCHANGED <<op, arg, use_decimal, doc>>

\* __object_hook(dict_) is called on an object whose members are decoded.
HookCall ==
    /\ pc = "idle"
    /\ \E dict_ \in HookDicts : arg' = dict_
    /\ pc' = "hook"
    /\ op' = "object_hook"
    /\ UNCHANGED <<use_decimal, doc, ret>>

HookReturn ==
    /\ pc = "hook"
    /\ ret' = ObjectHook(arg)
    /\ pc' = (IF ret' = Raised THEN "raised" ELSE "returned")
    /\ UNCHANGED <<op, arg, use_decimal, doc>>

\* retrieve_many(table_name, max_batch_size, use_decimal): the scan gives its
\* items.
Scan ==
    /\ pc = "idle"
    /\ \E items \in SeqsUpTo(Items, MaxBatch) : arg' = ListV(items)
    /\ use_decimal' \in BOOLEAN
    /\ pc' = "scanned"
    /\ op' = "retrieve_many"
    /\ UNCHANGED <<doc, ret>>

RetrieveManyReturn ==
    /\ pc = "scanned"
    /\ ret' = RetrieveMany(arg, use_decimal)
    /\ pc' = "returned"
    /\ UNCHANGED <<op, arg, use_decimal, doc>>

\* The call is over; the next one starts afresh.
Finish ==
    /\ pc \in {"returned", "raised"}
    /\ pc' = "idle"
    /\ op' = "none"
    /\ arg' = Null
    /\ use_decimal' = FALSE
    /\ doc' = Null
    /\ ret' = Null

Next ==
    \/ LoadObject
    \/ Dumps
    \/ Loads
    \/ HookCall
    \/ HookReturn
    \/ Scan
    \/ RetrieveManyReturn
    \/ Finish

Spec == Init /\ [][Next]_vars

Returned(o) == op = o /\ pc = "returned"
Ended(o) == op = o /\ pc \in {"returned", "raised"}

(***************************************************************************)
(* What the claims speak of.                                               *)
(***************************************************************************)
IsObject(v) == v.t = "Dict"
TagsOf(v) == DOMAIN v.d \cap TagSet
IsStrList(v) == v.t = "List" /\ \A i \in 1..Len(v.l) : v.l[i].t = "Str"

\* The earliest tag, in the order of Tags, among keys.
FirstTag(keys) ==
    Tags[CHOOSE i \in 1..Len(Tags) :
            Tags[i] \in keys /\ \A j \in 1..(i - 1) : Tags[j] \notin keys]

\* The object cut down to its earliest tag key.
Reduced(v) == Obj1(FirstTag(DOMAIN v.d), v.d[FirstTag(DOMAIN v.d)])

\* The grammar -?digits(.digits)? and the number a string of it denotes.
Unsigned(s) == IF Len(s) > 0 /\ s[1] = "-" THEN Tail(s) ELSE s
PointsOf(s) == {p \in 1..Len(s) : s[p] = "."}
IsDigits(s) == Len(s) > 0 /\ AllDigits(s)
HasFraction(s) == PointsOf(s) # {}
InGrammar(s) ==
    LET u == Unsigned(s)
    IN  \/ IsDigits(u)
        \/ \E p \in PointsOf(u) :
              IsDigits(SubSeq(u, 1, p - 1)) /\ IsDigits(SubSeq(u, p + 1, Len(u)))
Signed(s, n) == IF s[1] = "-" THEN -n ELSE n
GrammarValue(s) ==
    LET u == Unsigned(s)
    IN  IF HasFraction(s)
        THEN LET p == CHOOSE q \in PointsOf(u) : TRUE
             IN  FloatV(Signed(s, DigitsValue(SubSeq(u, 1, p - 1)) * Pow10(Len(u) - p)
                                  + DigitsValue(SubSeq(u, p + 1, Len(u)))),
                        Len(u) - p)
        ELSE IntV(Signed(s, DigitsValue(u)))

\* A well-formed attribute-value: an object of one tag key holding what the
\* tag stands for, M and L holding attribute-values in turn.
RECURSIVE IsAttributeValue(_)
IsAttributeValue(v) ==
    /\ IsObject(v)
    /\ Cardinality(DOMAIN v.d) = 1
    /\ LET k == CHOOSE x \in DOMAIN v.d : TRUE
           x == v.d[k]
       IN  CASE k = "BOOL" -> x.t = "Bool"
             [] k \in {"S", "B"} -> x.t = "Str"
             [] k = "N" -> x.t = "Str" /\ InGrammar(x.s)
             [] k \in {"SS", "NS", "BS"} -> IsStrList(x)
             [] k = "NULL" -> x = BoolV(TRUE)
             [] k = "M" -> IsObject(x) /\ \A f \in DOMAIN x.d : IsAttributeValue(x.d[f])
             [] k = "L" -> x.t = "List" /\ \A i \in 1..Len(x.l) : IsAttributeValue(x.l[i])
             [] OTHER -> FALSE

RECURSIVE HasDecimal(_)
HasDecimal(v) ==
    CASE v.t = "Decimal" -> TRUE
      [] v.t = "List" -> \E i \in 1..Len(v.l) : HasDecimal(v.l[i])
      [] v.t = "Dict" -> \E k \in DOMAIN v.d : HasDecimal(v.d[k])
      [] v.t = "Set" -> \E x \in v.e : HasDecimal(x)
      [] OTHER -> FALSE

\* The Decimal rule: int when the value has no fractional part, else float.
DecimalRule(v) ==
    IF Abs(v.num) % Pow10(v.exp) = 0 THEN IntV(v.num \div Pow10(v.exp))
    ELSE FloatV(v.num, v.exp)

\* The per-object step applied once more to every Mapping of a native value,
\* innermost first.
RECURSIVE Redecode(_)
Redecode(v) ==
    CASE v.t = "List" ->
            LET es == [i \in 1..Len(v.l) |-> Redecode(v.l[i])]
            IN  IF \E i \in 1..Len(es) : es[i] = Raised THEN Raised ELSE ListV(es)
      [] v.t = "Dict" ->
            LET fs == [k \in DOMAIN v.d |-> Redecode(v.d[k])]
            IN  IF \E k \in DOMAIN fs : fs[k] = Raised THEN Raised
                ELSE ObjectHook(DictV(fs))
      [] OTHER -> v

(***************************************************************************)
(* The claims.                                                             *)
(***************************************************************************)

\* C1: load_object raises nothing for a malformed attribute-value: a call on an
\* object of JSON values that holds one or more tag keys never ends in an
\* exception.
C1_NoErrorOnMalformed ==
    ~(/\ op = "load_object"
      /\ pc = "raised"
      /\ JsonDumps(arg) # Raised
      /\ TagsOf(arg) # {})

\* C2: for an object holding a non-empty subset of the tag keys, the per-object
\* step yields what it yields for the object cut down to the earliest tag key
\* in the order BOOL, S, SS, N, B, NS, BS, M, L, NULL: the later tag keys and
\* their values do not bear on the result.
C2_FirstTagDecides ==
    (/\ Ended("object_hook")
     /\ DOMAIN arg.d # {}
     /\ DOMAIN arg.d \subseteq TagSet)
    => ret = ObjectHook(Reduced(arg))

\* C2's case: an object holding S and N (and possibly later tags) was decoded
\* by its S branch, though N alone would have given a number.
C2_Witness ==
    /\ Returned("object_hook")
    /\ {"S", "N"} \subseteq DOMAIN arg.d
    /\ DOMAIN arg.d \subseteq TagSet
    /\ arg.d["S"] = StrV(<<"x">>)
    /\ arg.d["N"] = StrV(<<"3">>)
    /\ ret = StrV(<<"x">>)

\* C3: decoding {"SS": xs} for a list of strings xs yields the Set of the
\* distinct elements of xs.
C3_StringSetIsSet ==
    (/\ Ended("load_object")
     /\ DOMAIN arg.d = {"SS"}
     /\ IsStrList(arg.d["SS"]))
    => ret = SetV({arg.d["SS"].l[i] : i \in 1..Len(arg.d["SS"].l)})

\* C4: decoding {"M": m}, m mapping field names to well-formed single-tag
\* attribute-values, yields the Mapping of m's keys, each to the decoded value
\* of its attribute-value, whatever the field names (stated here for the m none
\* of whose fields is a B holding the text of a timestamp, which C10 covers).
C4_MapKeepsFields ==
    (/\ Ended("load_object")
     /\ DOMAIN arg.d = {"M"}
     /\ IsObject(arg.d["M"])
     /\ \A f \in DOMAIN arg.d["M"].d :
           /\ IsAttributeValue(arg.d["M"].d[f])
           /\ "B" \in DOMAIN arg.d["M"].d[f].d
              => Strptime(arg.d["M"].d[f].d["B"].s) = Raised)
    => ret = DictV([f \in DOMAIN arg.d["M"].d |-> JsonLoads(arg.d["M"].d[f])])

\* C5: retrieve_many with use_decimal=False returns a batch with no Decimal
\* anywhere in it, each Decimal of the scanned items having become an int or a
\* float by the Decimal rule, through lists, dicts and sets.
C5_NoDecimalLeft ==
    (Returned("retrieve_many") /\ ~use_decimal) => ~HasDecimal(ret)

\* C6: on the ordinary-object path of the decoder every field holding a Decimal
\* d comes out as an int when d has no fractional part and as a float
\* otherwise, for d positive, zero or negative.
C6_HookDecimalRule ==
    (Ended("object_hook") /\ TagsOf(arg) = {})
    => \A k \in DOMAIN arg.d :
          arg.d[k].t = "Decimal"
          => /\ pc = "returned"
             /\ IsObject(ret)
             /\ k \in DOMAIN ret.d
             /\ ret.d[k] = DecimalRule(arg.d[k])

\* C7: an object whose only tag key is NULL (its other fields scalars) decodes
\* to Null exactly when NULL holds the literal true; with NULL false it comes
\* back as a Mapping that still holds NULL: false, its other fields treated as
\* those of an ordinary object are.
C7_NullOnlyWhenTrue ==
    (/\ Ended("load_object")
     /\ TagsOf(arg) = {"NULL"}
     /\ \A k \in DOMAIN arg.d \ {"NULL"} : arg.d[k].t \notin {"Dict", "List"})
    => /\ (ret = Null) <=> (arg.d["NULL"] = BoolV(TRUE))
       /\ arg.d["NULL"] = BoolV(FALSE)
          => /\ pc = "returned"
             /\ IsObject(ret)
             /\ DOMAIN ret.d = DOMAIN arg.d
             /\ ret.d["NULL"] = BoolV(FALSE)
             /\ \A k \in DOMAIN arg.d \ {"NULL"} :
                   ret.d[k] = (IF arg.d[k].t = "Str" /\ Strptime(arg.d[k].s) # Raised
                               THEN Strptime(arg.d[k].s) ELSE arg.d[k])

\* C7's case: {"NULL": false, "x": <timestamp text>} came back as a Mapping
\* with NULL still false and x parsed.
C7_Witness ==
    /\ Returned("load_object")
    /\ DOMAIN arg.d = {"NULL", "x"}
    /\ arg.d["NULL"] = BoolV(FALSE)
    /\ arg.d["x"] = StrV(TsText)
    /\ IsObject(ret)
    /\ ret.d["NULL"] = BoolV(FALSE)
    /\ ret.d["x"].t = "Timestamp"

\* C8: for every N string s of the grammar -?digits(.digits)?, decoding
\* {"N": s} returns a float of s's value when s has the fractional group and
\* an int of s's value when it has not.
C8_NumberByGrammar ==
    (/\ Ended("load_object")
     /\ DOMAIN arg.d = {"N"}
     /\ arg.d["N"].t = "Str"
     /\ InGrammar(arg.d["N"].s))
    => /\ pc = "returned"
       /\ ret = GrammarValue(arg.d["N"].s)
       /\ ret.t = (IF HasFraction(arg.d["N"].s) THEN "Float" ELSE "Int")

\* C8's case: {"N": "-2.0"} came back as the float -2.0.
C8_Witness ==
    /\ Returned("load_object")
    /\ arg = Obj1("N", StrV(<<"-", "2", ".", "0">>))
    /\ ret.t = "Float"
    /\ ret.num = -2
    /\ ret.exp = 0

\* C9: for a well-formed attribute-value of one tag key, nested M and L
\* included, the per-object step applied once more to every Mapping of the
\* decoded value gives that value back.
C9_DecodeIdempotent ==
    (Returned("load_object") /\ IsAttributeValue(arg)) => Redecode(ret) = ret

\* C9's case: a nested attribute-value decoded to a value with a Mapping inside
\* a Sequence or a Mapping, which the second pass visits.
C9_Witness ==
    /\ Returned("load_object")
    /\ IsAttributeValue(arg)
    /\ "L" \in DOMAIN arg.d
    /\ ret.t = "List"
    /\ Len(ret.l) = 1
    /\ IsObject(ret.l[1])
    /\ DOMAIN ret.l[1].d # {}

\* C10: a B attribute-value decodes to its string wherever it stands: at the
\* top, as a field of an ordinary object, as a field of an M map, as an element
\* of an L list.
C10_BinaryStaysString ==
    Returned("load_object")
    => /\ (DOMAIN arg.d = {"B"} /\ arg.d["B"].t = "Str") => ret = arg.d["B"]
       /\ \A k \in DOMAIN arg.d :
             LET x == arg.d[k]
             IN  /\ (k = "a" /\ IsAttributeValue(x) /\ DOMAIN x.d = {"B"})
                    => ret = Obj1("a", x.d["B"])
                 /\ (k = "M" /\ IsObject(x) /\ DOMAIN x.d = {"a"}
                     /\ IsAttributeValue(x.d["a"]) /\ DOMAIN x.d["a"].d = {"B"})
                    => ret = Obj1("a", x.d["a"].d["B"])
                 /\ (k = "L" /\ x.t = "List" /\ Len(x.l) = 1
                     /\ IsAttributeValue(x.l[1]) /\ DOMAIN x.l[1].d = {"B"})
                    => ret = ListV(<<x.l[1].d["B"]>>)

=============================================================================
